---- MODULE Spec2Model ----
(***************************************************************************)
(* Roman numeral conversion (src/src/main.rs): the parser                  *)
(* RomanNumeral::from_str, the formatter RomanNumeral::to_string, the      *)
(* round-trip test tests::convert_back_and_forth and the driver main.      *)
(*                                                                         *)
(* A Rust char is a one-character string, a Rust String or &str is a       *)
(* sequence of such chars.  Every function runs step by step: one action   *)
(* per loop iteration or straight-line block, `pc` is the program point    *)
(* and `entry` the function the run was started from.                      *)
(***************************************************************************)
EXTENDS Integers, Sequences, FiniteSets, TLC

(***************************************************************************)
(* Bounds of the model.                                                    *)
(***************************************************************************)
\* longest string handed directly to from_str, besides the literals below
MaxLen == 3
\* largest value handed directly to to_string
MaxValue == 5000
\* to_string is also applied to -MaxNegative .. -1
MaxNegative == 3
\* longest line body the driver reads, and the most lines before end of input
MaxLineLen == 2
MaxLines == 2
\* the counter of reads at end of input saturates here
MaxEofReads == 3
\* the allocator always grants a request of at most this many bytes; a larger
\* one it may grant or refuse
AlwaysGranted == 4096

(***************************************************************************)
(* Characters and strings.                                                 *)
(***************************************************************************)
UpperCase == <<"A","B","C","D","E","F","G","H","I","J","K","L","M",
               "N","O","P","Q","R","S","T","U","V","W","X","Y","Z">>
LowerCase == <<"a","b","c","d","e","f","g","h","i","j","k","l","m",
               "n","o","p","q","r","s","t","u","v","w","x","y","z">>

\* char::to_ascii_lowercase: A-Z map to a-z, every other char is unchanged
to_ascii_lowercase(c) ==
    IF \E n \in 1..26 : UpperCase[n] = c
    THEN LowerCase[CHOOSE n \in 1..26 : UpperCase[n] = c]
    ELSE c

\* char::is_whitespace, on the chars of the model
is_whitespace(c) == c \in {" ", "\t", "\n", "\r"}

\* str::trim: the string without its leading and trailing whitespace
trim(str) ==
    LET keep == {n \in 1..Len(str) : ~is_whitespace(str[n])}
    IN
    IF keep = {} THEN <<>>
    ELSE LET lo == CHOOSE n \in keep : \A m \in keep : n <= m
             hi == CHOOSE n \in keep : \A m \in keep : m <= n
         IN  SubSeq(str, lo, hi)

(***************************************************************************)
(* RomanNumeralError and Result values.                                    *)
(***************************************************************************)
InvalidChar(c) == [tag |-> "InvalidChar", c |-> c]
MiscError(msg) == [tag |-> "MiscError", msg |-> msg]
Ok(v)          == [tag |-> "Ok", value |-> v]
\* no call has returned yet
NoResult       == [tag |-> "none"]

\* impl From<&str> for RomanNumeralError
from(msg) == MiscError(msg)

(***************************************************************************)
(* char_to_value                                                           *)
(***************************************************************************)
\* a slip: the error carries the folded char
char_to_value_folded(c) ==
    LET f == to_ascii_lowercase(c)
    IN  CASE f = "m" -> Ok(1000)
          [] f = "d" -> Ok(500)
          [] f = "c" -> Ok(100)
          [] f = "l" -> Ok(50)
          [] f = "x" -> Ok(10)
          [] f = "v" -> Ok(5)
          [] f = "i" -> Ok(1)
          [] OTHER   -> InvalidChar(f)

char_to_value(c) ==
    LET f == to_ascii_lowercase(c)
    IN  CASE f = "m" -> Ok(1000)
          [] f = "d" -> Ok(500)
          [] f = "c" -> Ok(100)
          [] f = "l" -> Ok(50)
          [] f = "x" -> Ok(10)
          [] f = "v" -> Ok(5)
          [] f = "i" -> Ok(1)
          [] OTHER   -> InvalidChar(c)

(***************************************************************************)
(* greatest_str_leq_than_n: the first arm whose range holds v              *)
(***************************************************************************)
Fragment(str, v) == [s |-> str, v |-> v]

\* a slip: the fragment of 9 is spelled backwards
greatest_str_leq_than_n_XI(v) ==
    IF v >= 1000 THEN Fragment(<<"M">>, 1000)
    ELSE IF v >= 900 THEN Fragment(<<"C","M">>, 900)
    ELSE IF v >= 500 THEN Fragment(<<"D">>, 500)
    ELSE IF v >= 400 THEN Fragment(<<"C","D">>, 400)
    ELSE IF v >= 100 THEN Fragment(<<"C">>, 100)
    ELSE IF v >= 90 THEN Fragment(<<"X","C">>, 90)
    ELSE IF v >= 50 THEN Fragment(<<"L">>, 50)
    ELSE IF v >= 40 THEN Fragment(<<"X","L">>, 40)
    ELSE IF v >= 10 THEN Fragment(<<"X">>, 10)
    ELSE IF v >= 9 THEN Fragment(<<"X","I">>, 9)
    ELSE IF v >= 5 THEN Fragment(<<"V">>, 5)
    ELSE IF v >= 4 THEN Fragment(<<"I","V">>, 4)
    ELSE IF v >= 1 THEN Fragment(<<"I">>, 1)
    ELSE Fragment(<<>>, 0)

\* a slip: the arm of 4 is missing
greatest_str_leq_than_n_no4(v) ==
    IF v >= 1000 THEN Fragment(<<"M">>, 1000)
    ELSE IF v >= 900 THEN Fragment(<<"C","M">>, 900)
    ELSE IF v >= 500 THEN Fragment(<<"D">>, 500)
    ELSE IF v >= 400 THEN Fragment(<<"C","D">>, 400)
    ELSE IF v >= 100 THEN Fragment(<<"C">>, 100)
    ELSE IF v >= 90 THEN Fragment(<<"X","C">>, 90)
    ELSE IF v >= 50 THEN Fragment(<<"L">>, 50)
    ELSE IF v >= 40 THEN Fragment(<<"X","L">>, 40)
    ELSE IF v >= 10 THEN Fragment(<<"X">>, 10)
    ELSE IF v >= 9 THEN Fragment(<<"I","X">>, 9)
    ELSE IF v >= 5 THEN Fragment(<<"V">>, 5)
    ELSE IF v >= 1 THEN Fragment(<<"I">>, 1)
    ELSE Fragment(<<>>, 0)

\* a slip: the arm of 1 is missing, so 1..3 fall to the catch-all arm
greatest_str_leq_than_n_no1(v) ==
    IF v >= 1000 THEN Fragment(<<"M">>, 1000)
    ELSE IF v >= 900 THEN Fragment(<<"C","M">>, 900)
    ELSE IF v >= 500 THEN Fragment(<<"D">>, 500)
    ELSE IF v >= 400 THEN Fragment(<<"C","D">>, 400)
    ELSE IF v >= 100 THEN Fragment(<<"C">>, 100)
    ELSE IF v >= 90 THEN Fragment(<<"X","C">>, 90)
    ELSE IF v >= 50 THEN Fragment(<<"L">>, 50)
    ELSE IF v >= 40 THEN Fragment(<<"X","L">>, 40)
    ELSE IF v >= 10 THEN Fragment(<<"X">>, 10)
    ELSE IF v >= 9 THEN Fragment(<<"I","X">>, 9)
    ELSE IF v >= 5 THEN Fragment(<<"V">>, 5)
    ELSE IF v >= 4 THEN Fragment(<<"I","V">>, 4)
    ELSE Fragment(<<>>, 0)

greatest_str_leq_than_n(v) ==
    IF v >= 1000 THEN Fragment(<<"M">>, 1000)
    ELSE IF v >= 900 THEN Fragment(<<"C","M">>, 900)
    ELSE IF v >= 500 THEN Fragment(<<"D">>, 500)
    ELSE IF v >= 400 THEN Fragment(<<"C","D">>, 400)
    ELSE IF v >= 100 THEN Fragment(<<"C">>, 100)
    ELSE IF v >= 90 THEN Fragment(<<"X","C">>, 90)
    ELSE IF v >= 50 THEN Fragment(<<"L">>, 50)
    ELSE IF v >= 40 THEN Fragment(<<"X","L">>, 40)
    ELSE IF v >= 10 THEN Fragment(<<"X">>, 10)
    ELSE IF v >= 9 THEN Fragment(<<"I","X">>, 9)
    ELSE IF v >= 5 THEN Fragment(<<"V">>, 5)
    ELSE IF v >= 4 THEN Fragment(<<"I","V">>, 4)
    ELSE IF v >= 1 THEN Fragment(<<"I">>, 1)
    ELSE Fragment(<<>>, 0)

(***************************************************************************)
(* Pieces of from_str and to_string.                                       *)
(***************************************************************************)
\* itertools tuple_windows over s.chars(): the adjacent pairs, left to right
tuple_windows(str) ==
    [n \in 1..(IF Len(str) >= 2 THEN Len(str) - 1 ELSE 0) |-> <<str[n], str[n + 1]>>]

\* s.chars().next_back(): the last char, if there is one
next_back(str) ==
    IF Len(str) = 0 THEN [some |-> FALSE] ELSE [some |-> TRUE, c |-> str[Len(str)]]

\* a slip: an equal neighbour subtracts too
window_term_leq(current, next) == IF current <= next THEN -current ELSE current

\* a slip: the comparison is turned around
window_term_gt(current, next) == IF current > next THEN -current ELSE current

\* the term one window adds to res: -current if current < next, else current
window_term(current, next) == IF current < next THEN -current ELSE current

\* a slip: no check for the empty string, which then counts as 0
from_str_last_unchecked(str, acc) ==
    LET b == next_back(str)
    IN  IF ~b.some
        THEN [r |-> Ok(acc), lookups |-> 0, site |-> "none"]
        ELSE LET last == char_to_value(b.c)
             IN  IF last.tag = "Ok"
                 THEN [r |-> Ok(acc + last.value), lookups |-> 1, site |-> "none"]
                 ELSE [r |-> last, lookups |-> 1, site |-> "last"]

\* what follows the loop: the last char's value is added; an empty string is
\* the error "empty string", raised before char_to_value is called.
\* lookups: the calls of char_to_value made; site: where the error was raised
from_str_last(str, acc) ==
    LET b == next_back(str)
    IN  IF ~b.some
        THEN [r |-> from("empty string"), lookups |-> 0, site |-> "empty"]
        ELSE LET last == char_to_value(b.c)
             IN  IF last.tag = "Ok"
                 THEN [r |-> Ok(acc + last.value), lookups |-> 1, site |-> "none"]
                 ELSE [r |-> last, lookups |-> 1, site |-> "last"]

\* a slip: the loop runs until the value is 0
while_cond_nonzero(v) == v # 0

\* the condition of to_string's loop
while_cond(v) == v > 0

\* self.value as usize / 500 + 1.  A negative value wraps to 2^64 + value,
\* which is beyond the 32-bit integers of TLC: the request is then
\* kept as `wrapped`, standing for (2^64 + value) / 500 + 1 bytes, which is
\* at least 2^63 / 500 and at most 2^64 / 500.
capacity_of(v) ==
    IF v >= 0 THEN [wrapped |-> FALSE, bytes |-> v \div 500 + 1]
    ELSE [wrapped |-> TRUE, bytes |-> 0]

\* String::with_capacity: the request is below isize::MAX, so it never panics
\* with a capacity overflow; the allocator grants it, or refuses it and the
\* process aborts.  Small requests are always granted.
with_capacity(cap) ==
    IF cap.wrapped \/ cap.bytes > AlwaysGranted THEN {"ok", "alloc_failed"} ELSE {"ok"}

(***************************************************************************)
(* State.                                                                  *)
(***************************************************************************)
VARIABLES
    entry,      \* the function the run started in: "from_str", "to_string",
                \* "convert_back_and_forth" or "main"
    pc,         \* the program point
    s,          \* from_str: the argument
    k,          \* from_str: the index of the next window
    res,        \* from_str: res
    lookups,    \* from_str: calls of char_to_value made by this call
    site,       \* from_str: where this call raised its error
    r,          \* the Result of the last from_str call
    value,      \* to_string: self.value
    capacity,   \* to_string: the capacity asked for
    val,        \* to_string: val
    result,     \* to_string: result
    frags,      \* to_string: the (fragment, magnitude) pairs of the iterations
    lines_left, \* main: lines stdin still holds
    inp_str,    \* main: inp_str
    stdout,     \* main: what this iteration has printed
    eof_reads   \* main: getline calls that read nothing at end of input

from_str_vars  == <<s, k, res, lookups, site, r>>
to_string_vars == <<value, capacity, val, result, frags>>
main_vars      == <<lines_left, inp_str, stdout, eof_reads>>
vars == <<entry, pc, s, k, res, lookups, site, r, value, capacity, val,
          result, frags, lines_left, inp_str, stdout, eof_reads>>

(***************************************************************************)
(* Inputs.                                                                 *)
(***************************************************************************)
\* the chars of the strings handed to from_str: the seven letters in both
\* cases, and chars that are no Roman digit
Chars == {"I","V","X","L","C","D","M","i","v","x","l","c","d","m","A","?"}

\* the strings of the unit tests and of the specification's examples
Literals == {
    <<"M","M","X","X","I","I","I">>,
    <<"m","m","x","x","i","i","i">>,
    <<"M","D","C","L","X","V","I">>,
    <<"M","C","M","L","X","X","X","I","V">>,
    <<"M","C","C","X","C","I","I","I">>,
    <<"I","I","I","I">>,
    <<"I","V","X","L","C","D","M">> }

Strings(alphabet, n) == UNION {[1..m -> alphabet] : m \in 0..n}

Inputs == Strings(Chars, MaxLen) \cup Literals

\* the chars of the lines the driver reads, and the lines: a body and the
\* line's end; the last line of the input may lack its end
LineChars == {"I","V","x","?"," "}
LineBodies == Strings(LineChars, MaxLineLen) \cup Literals
Lines == {body \o <<"\n">> : body \in LineBodies}
UnendedLines == LineBodies \ {<<>>}

\* tests::convert_back_and_forth: for i in 1..10_000 (the end is excluded)
TestEnd == 10000

(***************************************************************************)
(* Calls and returns.                                                      *)
(***************************************************************************)
NoCapacity == [wrapped |-> FALSE, bytes |-> 0]

call_from_str(str) ==
    /\ s' = str /\ k' = 1 /\ res' = 0 /\ lookups' = 0 /\ site' = "none"
    /\ r' = NoResult
    /\ pc' = "from_str"

\* where from_str returns to
from_str_return ==
    CASE entry = "from_str"               -> "done"
      [] entry = "convert_back_and_forth" -> "test_assert"
      [] entry = "main"                   -> "main_print"

\* RomanNumeral::with_value(v).to_string()
call_to_string(v) ==
    /\ value' = v /\ capacity' = NoCapacity /\ val' = 0 /\ result' = <<>>
    /\ frags' = <<>>
    /\ pc' = "to_string"

\* where to_string returns to
to_string_return ==
    CASE entry = "to_string"              -> "done"
      [] entry = "convert_back_and_forth" -> "test_parse"
      [] entry = "main"                   -> "main_converted_back"

(***************************************************************************)
(* RomanNumeral::from_str                                                  *)
(***************************************************************************)
\* one iteration of the loop over the windows: both chars are looked up,
\* current first, and the first error returns at once
FromStrWindow ==
    /\ pc = "from_str"
    /\ k <= Len(tuple_windows(s))
    /\ LET w       == tuple_windows(s)[k]
           current == char_to_value(w[1])
           next    == char_to_value(w[2])
       IN  IF current.tag # "Ok"
           THEN /\ r' = current /\ lookups' = lookups + 1 /\ site' = "window"
                /\ pc' = from_str_return
                /\ UNCHANGED <<k, res>>
           ELSE IF next.tag # "Ok"
           THEN /\ r' = next /\ lookups' = lookups + 2 /\ site' = "window"
                /\ pc' = from_str_return
                /\ UNCHANGED <<k, res>>
           ELSE /\ res' = res + window_term(current.value, next.value)
                /\ k' = k + 1 /\ lookups' = lookups + 2
                /\ UNCHANGED <<pc, r, site>>
    /\ UNCHANGED <<entry, s, to_string_vars, main_vars>>

\* after the loop: the last char, or the error of the empty string
FromStrLast ==
    /\ pc = "from_str"
    /\ k > Len(tuple_windows(s))
    /\ LET out == from_str_last(s, res)
       IN  /\ r' = out.r
           /\ lookups' = lookups + out.lookups
           /\ site' = out.site
    /\ pc' = from_str_return
    /\ UNCHANGED <<entry, s, k, res, to_string_vars, main_vars>>

(***************************************************************************)
(* RomanNumeral::to_string                                                 *)
(***************************************************************************)
\* String::with_capacity(self.value as usize / 500 + 1); let mut val
ToStringAlloc ==
    /\ pc = "to_string"
    /\ capacity' = capacity_of(value)
    /\ \E outcome \in with_capacity(capacity_of(value)) :
          IF outcome = "ok"
          THEN /\ result' = <<>> /\ val' = value /\ pc' = "to_string_while"
          ELSE /\ pc' = "abort" /\ UNCHANGED <<result, val>>
    /\ UNCHANGED <<entry, value, frags, from_str_vars, main_vars>>

\* one iteration of the loop
ToStringIter ==
    /\ pc = "to_string_while"
    /\ while_cond(val)
    /\ LET g == greatest_str_leq_than_n(val)
       IN  /\ val' = val - g.v
           /\ result' = result \o g.s
           /\ frags' = Append(frags, g)
    /\ UNCHANGED <<entry, pc, value, capacity, from_str_vars, main_vars>>

\* the loop ends and result is returned
ToStringRet ==
    /\ pc = "to_string_while"
    /\ ~while_cond(val)
    /\ pc' = to_string_return
    /\ UNCHANGED <<entry, to_string_vars, from_str_vars, main_vars>>

(***************************************************************************)
(* tests::convert_back_and_forth, for one i (kept in value)                *)
(***************************************************************************)
\* RomanNumeral::from_str(&string)
TestParse ==
    /\ pc = "test_parse"
    /\ call_from_str(result)
    /\ UNCHANGED <<entry, to_string_vars, main_vars>>

\* assert_eq!(i, ... .unwrap().to_int())
TestAssert ==
    /\ pc = "test_assert"
    /\ pc' = IF r.tag = "Ok" /\ r.value = value THEN "done" ELSE "panic"
    /\ UNCHANGED <<entry, from_str_vars, to_string_vars, main_vars>>

(***************************************************************************)
(* getline and main                                                        *)
(***************************************************************************)
\* getline: the next line of stdin, or nothing at end of input (read_line's
\* result is dropped); then from_str(inp_str.trim()) is called
MainGetline ==
    /\ pc = "main_getline"
    /\ IF lines_left > 0
       THEN /\ \E line \in Lines \cup (IF lines_left = 1 THEN UnendedLines ELSE {}) :
                  /\ inp_str' = line
                  /\ call_from_str(trim(line))
            /\ lines_left' = lines_left - 1
            /\ UNCHANGED eof_reads
       ELSE /\ inp_str' = <<>>
            /\ call_from_str(trim(<<>>))
            /\ eof_reads' = IF eof_reads < MaxEofReads
                            THEN eof_reads + 1 ELSE eof_reads
            /\ UNCHANGED lines_left
    /\ stdout' = <<>>
    /\ UNCHANGED <<entry, to_string_vars>>

\* the input and the value or the error are printed; for a value, to_string
\* is called
MainPrint ==
    /\ pc = "main_print"
    /\ IF r.tag = "Ok"
       THEN /\ stdout' = <<[input |-> trim(inp_str)], [value |-> r.value]>>
            /\ call_to_string(r.value)
       ELSE /\ stdout' = <<[input |-> trim(inp_str)], [error |-> r]>>
            /\ pc' = "main_getline"
            /\ UNCHANGED to_string_vars
    /\ UNCHANGED <<entry, from_str_vars, lines_left, inp_str, eof_reads>>

\* the value converted back is printed and the loop starts over
MainConvertedBack ==
    /\ pc = "main_converted_back"
    /\ stdout' = Append(stdout, [converted_back |-> result])
    /\ pc' = "main_getline"
    /\ UNCHANGED <<entry, from_str_vars, to_string_vars, lines_left, inp_str,
                   eof_reads>>

(***************************************************************************)
(* Specifications.                                                         *)
(***************************************************************************)

\* from_str called on a string, as the unit tests call it
InitFromStr ==
    /\ entry = "from_str" /\ pc = "from_str"
    /\ s \in Inputs /\ k = 1 /\ res = 0 /\ lookups = 0 /\ site = "none"
    /\ r = NoResult
    /\ value = 0 /\ capacity = NoCapacity /\ val = 0 /\ result = <<>>
    /\ frags = <<>>
    /\ lines_left = 0 /\ inp_str = <<>> /\ stdout = <<>> /\ eof_reads = 0

\* to_string called on with_value(v)
InitToString ==
    /\ entry = "to_string" /\ pc = "to_string"
    /\ s = <<>> /\ k = 1 /\ res = 0 /\ lookups = 0 /\ site = "none"
    /\ r = NoResult
    /\ value \in (-MaxNegative)..MaxValue
    /\ capacity = NoCapacity /\ val = 0 /\ result = <<>> /\ frags = <<>>
    /\ lines_left = 0 /\ inp_str = <<>> /\ stdout = <<>> /\ eof_reads = 0

\* one iteration of tests::convert_back_and_forth
InitTest ==
    /\ entry = "convert_back_and_forth" /\ pc = "to_string"
    /\ s = <<>> /\ k = 1 /\ res = 0 /\ lookups = 0 /\ site = "none"
    /\ r = NoResult
    /\ value \in 1..(TestEnd - 1)
    /\ capacity = NoCapacity /\ val = 0 /\ result = <<>> /\ frags = <<>>
    /\ lines_left = 0 /\ inp_str = <<>> /\ stdout = <<>> /\ eof_reads = 0

\* main, with stdin holding some lines
InitMain ==
    /\ entry = "main" /\ pc = "main_getline"
    /\ s = <<>> /\ k = 1 /\ res = 0 /\ lookups = 0 /\ site = "none"
    /\ r = NoResult
    /\ value = 0 /\ capacity = NoCapacity /\ val = 0 /\ result = <<>>
    /\ frags = <<>>
    /\ lines_left \in 0..MaxLines
    /\ inp_str = <<>> /\ stdout = <<>> /\ eof_reads = 0

NextFromStr  == FromStrWindow \/ FromStrLast
NextToString == ToStringAlloc \/ ToStringIter \/ ToStringRet
NextTest     == ToStringAlloc \/ ToStringIter \/ ToStringRet \/ TestParse
                \/ FromStrWindow \/ FromStrLast \/ TestAssert
NextMain     == MainGetline \/ FromStrWindow \/ FromStrLast \/ MainPrint
                \/ ToStringAlloc \/ ToStringIter \/ ToStringRet
                \/ MainConvertedBack

Init == InitFromStr \/ InitToString \/ InitTest \/ InitMain
Next == MainGetline \/ FromStrWindow \/ FromStrLast \/ MainPrint
        \/ ToStringAlloc \/ ToStringIter \/ ToStringRet \/ MainConvertedBack
        \/ TestParse \/ TestAssert

Spec         == Init /\ [][Next]_vars
SpecFromStr  == InitFromStr /\ [][NextFromStr]_vars
SpecToString == InitToString /\ [][NextToString]_vars
SpecTest     == InitTest /\ [][NextTest]_vars
SpecMain     == InitMain /\ [][NextMain]_vars
\* from_str as the unit tests and as main call it
SpecParse    == (InitFromStr \/ InitMain) /\ [][NextMain]_vars

\* to_string runs on: a sequential program takes its next step
FairToString == SpecToString /\ WF_vars(NextToString)

(***************************************************************************)
(* What the claims are stated with: the magnitudes of the seven letters,   *)
(* the pairwise rule, the formatter's table.                               *)
(***************************************************************************)
Magnitude ==
    [c \in {"I","V","X","L","C","D","M","i","v","x","l","c","d","m"} |->
        CASE c \in {"I","i"} -> 1
          [] c \in {"V","v"} -> 5
          [] c \in {"X","x"} -> 10
          [] c \in {"L","l"} -> 50
          [] c \in {"C","c"} -> 100
          [] c \in {"D","d"} -> 500
          [] c \in {"M","m"} -> 1000]

Recognized == DOMAIN Magnitude

AllRecognized(str) == \A n \in 1..Len(str) : str[n] \in Recognized

\* the position of the leftmost char of str that is no Roman digit
LeftmostUnrecognized(str) ==
    CHOOSE n \in 1..Len(str) :
        /\ str[n] \notin Recognized
        /\ \A m \in 1..(n - 1) : str[m] \in Recognized

\* the signed magnitude of position n under the pairwise rule
PairwiseTerm(str, n) ==
    IF n < Len(str) /\ Magnitude[str[n]] < Magnitude[str[n + 1]]
    THEN -Magnitude[str[n]]
    ELSE Magnitude[str[n]]

RECURSIVE PairwiseSum(_, _)
PairwiseSum(str, n) ==
    IF n = 0 THEN 0 ELSE PairwiseSum(str, n - 1) + PairwiseTerm(str, n)

PairwiseValue(str) == PairwiseSum(str, Len(str))

\* the upper-cased form of a string of Roman digits
UpperCased(str) ==
    [n \in 1..Len(str) |->
        CASE str[n] \in {"I","i"} -> "I"
          [] str[n] \in {"V","v"} -> "V"
          [] str[n] \in {"X","x"} -> "X"
          [] str[n] \in {"L","l"} -> "L"
          [] str[n] \in {"C","c"} -> "C"
          [] str[n] \in {"D","d"} -> "D"
          [] str[n] \in {"M","m"} -> "M"
          [] OTHER -> str[n]]

\* the formatter's table, largest magnitude first
Table == <<
    Fragment(<<"M">>, 1000), Fragment(<<"C","M">>, 900),
    Fragment(<<"D">>, 500),  Fragment(<<"C","D">>, 400),
    Fragment(<<"C">>, 100),  Fragment(<<"X","C">>, 90),
    Fragment(<<"L">>, 50),   Fragment(<<"X","L">>, 40),
    Fragment(<<"X">>, 10),   Fragment(<<"I","X">>, 9),
    Fragment(<<"V">>, 5),    Fragment(<<"I","V">>, 4),
    Fragment(<<"I">>, 1) >>

Subtractive == {<<"I","V">>, <<"I","X">>, <<"X","L">>, <<"X","C">>,
                <<"C","D">>, <<"C","M">>}

RECURSIVE SumOfMagnitudes(_)
SumOfMagnitudes(fs) ==
    IF fs = <<>> THEN 0 ELSE fs[1].v + SumOfMagnitudes(Tail(fs))

RECURSIVE Concatenated(_)
Concatenated(fs) ==
    IF fs = <<>> THEN <<>> ELSE fs[1].s \o Concatenated(Tail(fs))

\* how often the string part occurs in str, and the chars c of str
Occurrences(part, str) ==
    Cardinality({n \in 1..(Len(str) - Len(part) + 1) :
                    SubSeq(str, n, n + Len(part) - 1) = part})
CountOf(c, str) == Cardinality({n \in 1..Len(str) : str[n] = c})

\* from_str, called directly, has returned
FromStrReturned == entry = "from_str" /\ pc = "done"
\* to_string, called directly, has returned
ToStringReturned == entry = "to_string" /\ pc = "done"

(***************************************************************************)
(* The claims.                                                             *)
(***************************************************************************)

\* C1: for every v in 1..9999, to_string of v parsed by from_str succeeds and
\* gives exactly v: the test's assertion never fails, and from_str's result
\* on the formatted string is Ok(v).
C1_RoundTrip ==
    /\ pc # "panic" /\ pc # "abort"
    /\ pc \in {"test_assert", "done"} =>
          /\ s = result
          /\ r = Ok(value)

C1_Witness ==
    /\ entry = "convert_back_and_forth" /\ pc = "done"
    /\ value = 9999 /\ s = <<"M","M","M","M","M","M","M","M","M","C","M","X","C","I","X">>
    /\ r = Ok(9999)

\* C2: for every non-empty string of Roman digits in any mix of cases,
\* from_str returns Ok of the pairwise-rule value; one char gives its
\* magnitude, the upper-cased form has the same value, and the literals of
\* the tests have their values.
C2_PairwiseRule ==
    (FromStrReturned /\ s # <<>> /\ AllRecognized(s)) =>
        /\ r = Ok(PairwiseValue(s))
        /\ r.value = PairwiseValue(UpperCased(s))
        /\ Len(s) = 1 => r.value = Magnitude[s[1]]
        /\ UpperCased(s) = <<"M","M","X","X","I","I","I">> => r.value = 2023
        /\ s = <<"M","D","C","L","X","V","I">> => r.value = 1666
        /\ s = <<"I","V">> => r.value = 4
        /\ s = <<"I","X">> => r.value = 9
        /\ s = <<"M","C","M","L","X","X","X","I","V">> => r.value = 1984
        /\ s = <<"M","C","C","X","C","I","I","I">> => r.value = 1293
        /\ s = <<"I","I","I","I">> => r.value = 4

C2_Witness ==
    /\ FromStrReturned
    /\ s = <<"m","m","x","x","i","i","i">>
    /\ r = Ok(2023)

\* C3: for every non-empty string with a char that is no Roman digit,
\* from_str returns InvalidChar of the leftmost such char, as written (not
\* folded), and no value; the error comes from the last-char lookup for one
\* char and from the window scan for two or more.
C3_InvalidCharLeftmost ==
    (FromStrReturned /\ s # <<>> /\ ~AllRecognized(s)) =>
        /\ r = InvalidChar(s[LeftmostUnrecognized(s)])
        /\ site = IF Len(s) = 1 THEN "last" ELSE "window"

C3_Witness ==
    /\ FromStrReturned
    /\ s = <<"x","A","?">>
    /\ r = InvalidChar("A")
    /\ site = "window"

\* C4: from_str returns MiscError("empty string") exactly for the empty
\* string, there without any call of char_to_value and never with a value;
\* a non-empty string gives a value or InvalidChar.
C4_EmptyString ==
    /\ (pc = "from_str" /\ s = <<>>) => lookups = 0
    /\ FromStrReturned =>
          /\ r.tag = "MiscError" <=> s = <<>>
          /\ s = <<>> => (r = MiscError("empty string") /\ lookups = 0
                          /\ site = "empty")
          /\ s # <<>> => r.tag \in {"Ok", "InvalidChar"}

C4_Witness ==
    /\ FromStrReturned
    /\ s = <<>>
    /\ r = MiscError("empty string")

\* C5: for every v >= 0 the string of to_string never holds IIII, XXXX or
\* CCCC, holds each of V, L, D at most once and each subtractive fragment
\* (IV, IX, XL, XC, CD, CM) at most once; only M repeats four times or more;
\* to_string(4) = "IV" and to_string(9) = "IX".
C5_Canonical ==
    (entry = "to_string" /\ value >= 0) =>
        /\ \A c \in {"I","V","X","L","C","D"} : Occurrences(<<c, c, c, c>>, result) = 0
        /\ \A c \in {"V","L","D"} : CountOf(c, result) <= 1
        /\ \A f \in Subtractive :
              /\ Occurrences(f, result) <= 1
              /\ Cardinality({n \in 1..Len(frags) : frags[n].s = f}) <= 1
        /\ (pc = "done" /\ value = 4) => result = <<"I","V">>
        /\ (pc = "done" /\ value = 9) => result = <<"I","X">>

C5_Witness ==
    /\ ToStringReturned
    /\ value = 4444
    /\ result = <<"M","M","M","M","C","D","X","L","I","V">>

\* C6, as claimed: from_str("IIX") succeeds and gives 8.
C6_IIX_Is_8 ==
    (FromStrReturned /\ s = <<"I","I","X">>) => r = Ok(8)

\* C6, amended: from_str("IIX") succeeds and gives 10: the window (I,I)
\* adds 1, the window (I,X) subtracts 1, the last char adds 10.
C6_IIX_Is_10 ==
    (FromStrReturned /\ s = <<"I","I","X">>) =>
        /\ r = Ok(10)
        /\ r.value = PairwiseValue(s)

C6_Witness ==
    /\ FromStrReturned
    /\ s = <<"I","I","X">>
    /\ r.tag = "Ok"

\* C7: for every v >= 0 the loop of to_string terminates.  Each iteration
\* takes the largest table entry whose magnitude is at most the remaining
\* value, a non-empty fragment of magnitude at least 1, so the remaining
\* value falls, stays at least 0 and ends at 0; the magnitudes emitted plus
\* the remaining value are v throughout; for v = 0 there is no iteration and
\* the result is empty.
C7_Invariant ==
    (entry = "to_string" /\ value >= 0) =>
        /\ pc \in {"to_string_while", "done"} =>
              /\ val >= 0
              /\ SumOfMagnitudes(frags) + val = value
              /\ result = Concatenated(frags)
        /\ pc = "done" => val = 0
        /\ value = 0 => (frags = <<>> /\ result = <<>>)

C7_Iteration ==
    (entry = "to_string" /\ value >= 0 /\ frags' # frags) =>
        LET g == frags'[Len(frags')]
        IN  /\ frags' = Append(frags, g)
            /\ \E n \in 1..Len(Table) : Table[n] = g
            /\ g.v <= val
            /\ \A n \in 1..Len(Table) : Table[n].v <= val => Table[n].v <= g.v
            /\ g.s # <<>> /\ g.v >= 1
            /\ val' = val - g.v /\ val' < val /\ val' >= 0
            /\ result' = result \o g.s

C7_Terminates ==
    /\ []C7_Invariant
    /\ [][C7_Iteration]_vars
    /\ (entry = "to_string" /\ value >= 0) ~> (pc = "done" /\ val = 0)

C7_Witness ==
    /\ ToStringReturned
    /\ value = 3888
    /\ Len(frags) = 15
    /\ val = 0

\* C8, as claimed: to_string of a negative value never returns.
C8_NegativeNeverReturns ==
    (entry = "to_string" /\ value < 0) => pc # "done"

\* C8, amended: for a negative value the loop body never runs: the condition
\* val > 0 is false at once, greatest_str_leq_than_n is not called, the
\* remaining value stays v, and to_string ends: it returns the empty string,
\* unless the allocator refuses the capacity asked for, (v as usize) / 500
\* + 1 bytes, and the process aborts.
C8_NoIteration ==
    (entry = "to_string" /\ value < 0) =>
        /\ frags = <<>> /\ result = <<>>
        /\ pc \in {"to_string", "to_string_while", "done", "abort"}
        /\ pc \in {"to_string_while", "done"} => val = value
        /\ pc # "to_string" => capacity.wrapped

C8_NegativeReturnsEmpty ==
    /\ []C8_NoIteration
    /\ (entry = "to_string" /\ value < 0) ~> (pc \in {"done", "abort"})

C8_Witness ==
    /\ ToStringReturned
    /\ value = -1
    /\ val = -1
    /\ result = <<>>

\* C9: once getline has read nothing at end of input the driver stops: it
\* does not go round its loop and read at end of input again.
C9_StopsAtEndOfInput == eof_reads <= 1

\* C10: every value from_str returns is at least 1: for every non-empty
\* string of Roman digits, in any case and order, the result is Ok of a value
\* >= 1, and the value main hands to to_string is at least 1.
C10_ParsedValuePositive ==
    /\ r.tag = "Ok" => r.value >= 1
    /\ (pc \in {"done", "main_print"} /\ s # <<>> /\ AllRecognized(s)) =>
          (r.tag = "Ok" /\ r.value >= 1)
    /\ (entry = "main" /\ pc \in {"to_string", "to_string_while", "main_converted_back"}) =>
          (value >= 1 /\ value = r.value)

C10_Witness ==
    /\ entry = "main" /\ pc = "to_string"
    /\ s = <<"I","V","X","L","C","D","M">>
    /\ value = 334

====
